---- MODULE Spec2Model ----
(***************************************************************************)
(* Model of opendbc/car/tesla/carcontroller.py: the Tesla CarController,   *)
(* its steering angle limiter, the driver torque override filter, the      *)
(* frame-scheduled command emission and the longitudinal command.          *)
(*                                                                         *)
(* Fixed point units (the source computes in floats):                      *)
(*   angles            centi-degrees   (1 deg     = 100)                   *)
(*   steering torque   deci-Nm         (1 Nm      = 10)                    *)
(*   acceleration      centi-m/s^2     (1 m/s^2   = 100)                   *)
(*   jerk / lat accel  milli-units     (1 m/s^3   = 1000)                  *)
(*   curvature         micro-1/m       (1 1/m     = 1000000)               *)
(*   speed             m/s (integers)                                      *)
(* Divisions truncate toward zero, so every odd function of the source is  *)
(* odd in the model.                                                       *)
(***************************************************************************)
EXTENDS Integers, Sequences, FiniteSets, TLC

VARIABLES
  apply_angle_last,   \* self.apply_angle_last
  angle_modifier,     \* self.angle_modifier
  driver_torque,      \* self.driver_torque.x, the low-pass filter's value
  frame,              \* self.frame
  CP,                 \* self.CP.openpilotLongitudinalControl
  pc,                 \* "idle", or "called": update was called with CC and CS
  CC,                 \* the request of the call in progress
  CS,                 \* the observation of the call in progress
  new_actuators,      \* returned by the last update call: steeringAngleDeg
  can_sends,          \* returned by the last update call: the command list
  vm_calls,           \* the calls the last update made to the vehicle model
  last_long_cntr      \* the bus: counter of the last longitudinal command
                      \* sent, -1 before the first

vars == <<apply_angle_last, angle_modifier, driver_torque, frame, CP, pc, CC,
          CS, new_actuators, can_sends, vm_calls, last_long_cntr>>

----------------------------------------------------------------------------
(* Bounds of the model *)

\* Spec: update is called for frames 0 .. MaxFrame-1
MaxFrame == 5

\* SpecSched: update is called for frames 0 .. MaxFrameSched-1
MaxFrameSched == 34

\* SpecSpeed: update is called for frames 0 .. MaxFrameSpeed-1
MaxFrameSpeed == 3

\* SpecTorque: update is called for frames 0 .. MaxFrameTorque-1
MaxFrameTorque == 3

----------------------------------------------------------------------------
(* Scalar helpers *)

Abs(x) == IF x < 0 THEN -x ELSE x

Max(a, b) == IF a >= b THEN a ELSE b

Min(a, b) == IF a <= b THEN a ELSE b

\* np.sign
Sign(x) == IF x > 0 THEN 1 ELSE IF x < 0 THEN -1 ELSE 0

\* float division, truncated toward zero (d > 0)
TruncDiv(n, d) == Sign(n) * (Abs(n) \div d)

\* np.clip(x, lo, hi) = minimum(maximum(x, lo), hi)
Clip(x, lo, hi) == Min(Max(x, lo), hi)

----------------------------------------------------------------------------
(* Module constants of carcontroller.py *)

\* MAX_ANGLE_RATE = 10 deg per 20 ms frame
MAX_ANGLE_RATE == 1000

\* MAX_LATERAL_ACCEL = 3.0 + 9.81 * 0.06 = 3.5886 m/s^2
MAX_LATERAL_ACCEL == 3589

\* MAX_LATERAL_JERK = 3.0 + 9.81 * 0.06 = 3.5886 m/s^3
MAX_LATERAL_JERK == 3589

\* the speed floor of get_max_angle_delta and get_max_angle: max(v_ego_raw, 1)
LimiterSpeedFloor == 1

\* the speed floor of the torque override: max(CS.out.vEgoRaw, 20)
TorqueSpeedFloor == 20

\* the torque deadband, 0.5
TorqueDeadband == 5

\* the clip of the deadbanded torque, 3.0
TorqueClip == 30

\* the clip of angle_modifier's change per update, 5 deg
ModifierStep == 500

(* Collaborators outside carcontroller.py *)

\* CarControllerParams.ANGLE_LIMITS.STEER_ANGLE_MAX, 360 deg
STEER_ANGLE_MAX == 36000

\* CarControllerParams.ACCEL_MIN, -3.48 m/s^2
ACCEL_MIN == -348

\* CarControllerParams.ACCEL_MAX, 2.0 m/s^2
ACCEL_MAX == 200

\* steerRatio * wheelbase * 180/pi of the vehicle model, in deg*m
SteerGain == 1987

\* 1 / -slip_factor of the vehicle model, in (m/s)^2
SlipDen == 1000

\* FirstOrderFilter(0.0, 0.003, DT_CTRL): alpha = dt / (rc + dt) = 10/13
FilterAlphaNum == 10

FilterAlphaDen == 13

\* math.degrees(VM.get_steer_from_curvature(curvature, speed, 0)):
\* curvature * steerRatio * wheelbase * (1 - slip_factor * speed^2), the
\* curvature in micro-1/m, the result in centi-degrees
get_steer_from_curvature(curvature, speed) ==
  LET gain == (SteerGain * (SlipDen + speed * speed)) \div SlipDen
  IN  TruncDiv(curvature * (gain \div 10), 1000)

\* a call of VM.get_steer_from_curvature as the vehicle model sees it
VMCall(curvature, speed) == [curvature |-> curvature, speed |-> speed]

\* rate_limit(new_value, last_value, dw_step, up_step)
rate_limit(new_value, last_value, dw_step, up_step) ==
  Clip(new_value, last_value + dw_step, last_value + up_step)

\* FirstOrderFilter.update: x = (1 - alpha) * x + alpha * new
FilterUpdate(x, new) ==
  TruncDiv((FilterAlphaDen - FilterAlphaNum) * x + FilterAlphaNum * new,
           FilterAlphaDen)

----------------------------------------------------------------------------
(* Steering Angle Limiter *)

\* per-cycle angle delta from the lateral jerk bound; DT_CTRL * STEER_STEP
\* is 0.01 * 2.  The curvature uses the floored speed, the vehicle model is
\* called with the raw speed.
\* MAX_LATERAL_JERK / (max(v_ego_raw, 1) ** 2)
MaxCurvatureRate(v_ego_raw) ==
  LET vf == Max(v_ego_raw, LimiterSpeedFloor)
  IN  (MAX_LATERAL_JERK * 1000) \div (vf * vf)

\* MAX_LATERAL_ACCEL / (max(v_ego_raw, 1) ** 2)
MaxCurvature(v_ego_raw) ==
  LET vf == Max(v_ego_raw, LimiterSpeedFloor)
  IN  (MAX_LATERAL_ACCEL * 1000) \div (vf * vf)

\* the speed the limiter hands the vehicle model: v_ego_raw itself
LimiterModelSpeed(v_ego_raw) == v_ego_raw

get_max_angle_delta(v_ego_raw) ==
  LET max_angle_rate_sec ==
        get_steer_from_curvature(MaxCurvatureRate(v_ego_raw),
                                 LimiterModelSpeed(v_ego_raw))
  IN  TruncDiv(max_angle_rate_sec * 2, 100)

get_max_angle(v_ego_raw) ==
  get_steer_from_curvature(MaxCurvature(v_ego_raw), LimiterModelSpeed(v_ego_raw))

\* the limiter's two calls of the vehicle model, in order
LimiterVMCalls(v_ego_raw) ==
  <<VMCall(MaxCurvatureRate(v_ego_raw), LimiterModelSpeed(v_ego_raw)),
    VMCall(MaxCurvature(v_ego_raw), LimiterModelSpeed(v_ego_raw))>>

\* min(max_angle_delta, MAX_ANGLE_RATE)
MaxAngleDeltaLimited(v_ego_raw) ==
  Min(get_max_angle_delta(v_ego_raw), MAX_ANGLE_RATE)

\* the limiter without its last clip to STEER_ANGLE_MAX
LimitsWithoutFinalClip(apply_angle, last, v_ego_raw, steering_angle, lat_active) ==
  LET max_angle_delta == MaxAngleDeltaLimited(v_ego_raw)
      limited == rate_limit(apply_angle, last, -max_angle_delta, max_angle_delta)
      max_angle == get_max_angle(v_ego_raw)
      clipped == Clip(limited, -max_angle, max_angle)
  IN  IF ~lat_active THEN steering_angle ELSE clipped

\* the limiter without the clip of the jerk delta to MAX_ANGLE_RATE
LimitsWithoutRateCeiling(apply_angle, last, v_ego_raw, steering_angle, lat_active) ==
  LET max_angle_delta == get_max_angle_delta(v_ego_raw)
      limited == rate_limit(apply_angle, last, -max_angle_delta, max_angle_delta)
      max_angle == get_max_angle(v_ego_raw)
      clipped == Clip(limited, -max_angle, max_angle)
      new_apply_angle == IF ~lat_active THEN steering_angle ELSE clipped
  IN  Clip(new_apply_angle, -STEER_ANGLE_MAX, STEER_ANGLE_MAX)

\* the limiter without the override by the measured angle when inactive
LimitsWithoutInactiveOverride(apply_angle, last, v_ego_raw, steering_angle, lat_active) ==
  LET max_angle_delta == MaxAngleDeltaLimited(v_ego_raw)
      limited == rate_limit(apply_angle, last, -max_angle_delta, max_angle_delta)
      max_angle == get_max_angle(v_ego_raw)
      clipped == Clip(limited, -max_angle, max_angle)
  IN  Clip(clipped, -STEER_ANGLE_MAX, STEER_ANGLE_MAX)

\* the limiter rate-limiting from the measured angle, not from the last one
LimitsFromMeasuredAngle(apply_angle, last, v_ego_raw, steering_angle, lat_active) ==
  LET max_angle_delta == MaxAngleDeltaLimited(v_ego_raw)
      limited == rate_limit(apply_angle, steering_angle, -max_angle_delta,
                            max_angle_delta)
      max_angle == get_max_angle(v_ego_raw)
      clipped == Clip(limited, -max_angle, max_angle)
      new_apply_angle == IF ~lat_active THEN steering_angle ELSE clipped
  IN  Clip(new_apply_angle, -STEER_ANGLE_MAX, STEER_ANGLE_MAX)

apply_tesla_steer_angle_limits(apply_angle, last, v_ego_raw, steering_angle, lat_active) ==
  LET max_angle_delta == MaxAngleDeltaLimited(v_ego_raw)
      limited == rate_limit(apply_angle, last, -max_angle_delta, max_angle_delta)
      max_angle == get_max_angle(v_ego_raw)
      clipped == Clip(limited, -max_angle, max_angle)
      new_apply_angle == IF ~lat_active THEN steering_angle ELSE clipped
  IN  Clip(new_apply_angle, -STEER_ANGLE_MAX, STEER_ANGLE_MAX)

----------------------------------------------------------------------------
(* Torque Override Filter *)

\* the deadband applied without being subtracted
DriverTorqueInputKeepingDeadband(steeringTorque) ==
  LET dead == IF Abs(steeringTorque) >= TorqueDeadband
              THEN steeringTorque
              ELSE 0
  IN  Clip(dead, -TorqueClip, TorqueClip)

\* the value fed to the low-pass filter: deadband, then clip
DriverTorqueInput(steeringTorque) ==
  LET dead == IF Abs(steeringTorque) >= TorqueDeadband
              THEN steeringTorque - TorqueDeadband * Sign(steeringTorque)
              ELSE 0
  IN  Clip(dead, -TorqueClip, TorqueClip)

\* curvature_from_torque: 1 Nm taken as 1 m/s^2 of lateral acceleration
CurvatureFromTorque(filtered, vEgoRaw) ==
  LET vf == Max(vEgoRaw, TorqueSpeedFloor)
  IN  TruncDiv(filtered * 100000, vf * vf)

\* the torque override handing the vehicle model the raw speed
TorqueModelSpeedRaw(vEgoRaw) == vEgoRaw

\* the speed the torque override hands the vehicle model
TorqueModelSpeed(vEgoRaw) == Max(vEgoRaw, TorqueSpeedFloor)

angle_from_torque(filtered, vEgoRaw) ==
  get_steer_from_curvature(CurvatureFromTorque(filtered, vEgoRaw),
                           TorqueModelSpeed(vEgoRaw))

\* the torque override's call of the vehicle model, made when CC.latActive
TorqueVMCalls(filtered, vEgoRaw, latActive) ==
  IF latActive
  THEN <<VMCall(CurvatureFromTorque(filtered, vEgoRaw), TorqueModelSpeed(vEgoRaw))>>
  ELSE <<>>

\* angle_modifier following the torque angle without the clip of its change
ModifierWithoutStepClip(modifier, filtered, vEgoRaw, latActive) ==
  IF latActive THEN angle_from_torque(filtered, vEgoRaw) ELSE 0

\* angle_modifier kept, not reset, when the request is not active
ModifierWithoutReset(modifier, filtered, vEgoRaw, latActive) ==
  IF latActive
  THEN Clip(angle_from_torque(filtered, vEgoRaw),
            modifier - ModifierStep, modifier + ModifierStep)
  ELSE modifier

\* the angle_modifier of a steering-rate update
NextAngleModifier(modifier, filtered, vEgoRaw, latActive) ==
  IF latActive
  THEN Clip(angle_from_torque(filtered, vEgoRaw),
            modifier - ModifierStep, modifier + ModifierStep)
  ELSE 0

----------------------------------------------------------------------------
(* Control loop schedule *)

\* the steering update on every frame
SteerDueEveryFrame(f) == f % 1 = 0

SteerDue(f) == f % 2 = 0

\* the heartbeat on every fifth frame
AllowedDueEveryFifth(f) == f % 5 = 0

AllowedDue(f) == f % 10 = 0

\* the longitudinal command on the steering sub-rate
LongDueEverySecond(f) == f % 2 = 0

LongDue(f) == f % 4 = 0

----------------------------------------------------------------------------
(* Commands (teslacan's encoders keep the fields they are given) *)

create_steering_control(angle, enabled) ==
  [kind |-> "steering", angle |-> angle, enabled |-> enabled]

create_steering_allowed == [kind |-> "allowed"]

create_longitudinal_command(state, accel, cntr, v_ego, active) ==
  [kind |-> "longitudinal", state |-> state, accel |-> accel, cntr |-> cntr,
   v_ego |-> v_ego, active |-> active]

ACC_ON == 4

ACC_CANCEL_GENERIC_SILENT == 13

\* the counter taken from the frame index without the division by 4
OwnedCounterNoDivision(f) == f % 8

\* owned mode: openpilotLongitudinalControl
OwnedCounter(f) == (f \div 4) % 8

\* the owned command suppressed while longActive is false
OwnedLongitudinalGated(f, cc, cs) ==
  IF LongDue(f) /\ cc.longActive
  THEN <<create_longitudinal_command(
           IF cc.cancel THEN ACC_CANCEL_GENERIC_SILENT ELSE ACC_ON,
           Clip(cc.accel, ACCEL_MIN, ACCEL_MAX),
           OwnedCounter(f), cs.vEgo, cc.longActive)>>
  ELSE <<>>

OwnedLongitudinal(f, cc, cs) ==
  IF LongDue(f)
  THEN <<create_longitudinal_command(
           IF cc.cancel THEN ACC_CANCEL_GENERIC_SILENT ELSE ACC_ON,
           Clip(cc.accel, ACCEL_MIN, ACCEL_MAX),
           OwnedCounter(f), cs.vEgo, cc.longActive)>>
  ELSE <<>>

\* the counter incremented without the wrap
UnownedCounterNoWrap(observed) == observed + 1

\* unowned mode: the cancel is sent with the car's counter incremented
UnownedCounter(observed) == (observed + 1) % 8

\* the unowned cancel carrying the request's accel and longActive
UnownedLongitudinalFromRequest(cc, cs) ==
  IF cc.cancel
  THEN <<create_longitudinal_command(ACC_CANCEL_GENERIC_SILENT,
           Clip(cc.accel, ACCEL_MIN, ACCEL_MAX),
           UnownedCounter(cs.DAS_controlCounter), cs.vEgo, cc.longActive)>>
  ELSE <<>>

UnownedLongitudinal(cc, cs) ==
  IF cc.cancel
  THEN <<create_longitudinal_command(ACC_CANCEL_GENERIC_SILENT, 0,
           UnownedCounter(cs.DAS_controlCounter), cs.vEgo, FALSE)>>
  ELSE <<>>

\* the unowned branch run after the owned one too (if without else)
LongitudinalBothBranches(owned, f, cc, cs) ==
  (IF owned THEN OwnedLongitudinal(f, cc, cs) ELSE <<>>)
    \o UnownedLongitudinal(cc, cs)

Longitudinal(owned, f, cc, cs) ==
  IF owned THEN OwnedLongitudinal(f, cc, cs) ELSE UnownedLongitudinal(cc, cs)

----------------------------------------------------------------------------
(* CarController *)

\* lat_active without the hands-on-level test
LatActiveIgnoringHands(cc, cs) == cc.latActive

\* lat_active = CC.latActive and CS.hands_on_level < 3
LatActive(cc, cs) == cc.latActive /\ cs.hands_on_level < 3

NoCC == [latActive |-> FALSE, longActive |-> FALSE, cancel |-> FALSE,
         steeringAngleDeg |-> 0, accel |-> 0]

NoCS == [hands_on_level |-> 0, steeringTorque |-> 0, vEgoRaw |-> 0,
         vEgo |-> 0, steeringAngleDeg |-> 0, DAS_controlCounter |-> 0]

Init ==
  /\ apply_angle_last = 0
  /\ angle_modifier = 0
  /\ driver_torque = 0
  /\ frame = 0
  /\ CP \in BOOLEAN
  /\ pc = "idle"
  /\ CC = NoCC
  /\ CS = NoCS
  /\ new_actuators = 0
  /\ can_sends = <<>>
  /\ vm_calls = <<>>
  /\ last_long_cntr = -1

\* the caller hands update a request and an observation
Call(requests, observations, maxFrame) ==
  /\ pc = "idle"
  /\ frame < maxFrame
  /\ \E cc \in requests, cs \in observations : CC' = cc /\ CS' = cs
  /\ pc' = "called"
  /\ UNCHANGED <<apply_angle_last, angle_modifier, driver_torque, frame, CP,
                 new_actuators, can_sends, vm_calls, last_long_cntr>>

\* CarController.update(CC, CS, now_nanos), from its first line to its return
update ==
  LET lat_active == LatActive(CC, CS)
      filtered == FilterUpdate(driver_torque, DriverTorqueInput(CS.steeringTorque))
      modifier == IF SteerDue(frame)
                  THEN NextAngleModifier(angle_modifier, filtered, CS.vEgoRaw,
                                         CC.latActive)
                  ELSE angle_modifier
      applied == IF SteerDue(frame)
                 THEN apply_tesla_steer_angle_limits(
                        CC.steeringAngleDeg + modifier, apply_angle_last,
                        CS.vEgoRaw, CS.steeringAngleDeg, lat_active)
                 ELSE apply_angle_last
      steering == IF SteerDue(frame)
                  THEN <<create_steering_control(applied, lat_active)>>
                  ELSE <<>>
      allowed == IF AllowedDue(frame) THEN <<create_steering_allowed>> ELSE <<>>
      longitudinal == Longitudinal(CP, frame, CC, CS)
  IN  /\ pc = "called"
      /\ driver_torque' = filtered
      /\ angle_modifier' = modifier
      /\ apply_angle_last' = applied
      /\ can_sends' = steering \o allowed \o longitudinal
      /\ vm_calls' = IF SteerDue(frame)
                     THEN TorqueVMCalls(filtered, CS.vEgoRaw, CC.latActive)
                            \o LimiterVMCalls(CS.vEgoRaw)
                     ELSE <<>>
      /\ last_long_cntr' = IF longitudinal = <<>>
                           THEN last_long_cntr
                           ELSE longitudinal[Len(longitudinal)].cntr
      /\ new_actuators' = applied
      /\ frame' = frame + 1
      /\ pc' = "idle"
      /\ CC' = NoCC
      /\ CS' = NoCS
      /\ UNCHANGED CP

----------------------------------------------------------------------------
(* Requests and observations *)

Requests(latActives, longActives, cancels, angles, accels) ==
  [latActive : latActives, longActive : longActives, cancel : cancels,
   steeringAngleDeg : angles, accel : accels]

Observations(levels, torques, speeds, angles, counters) ==
  { [hands_on_level |-> l, steeringTorque |-> t, vEgoRaw |-> v, vEgo |-> v,
     steeringAngleDeg |-> a, DAS_controlCounter |-> c] :
      l \in levels, t \in torques, v \in speeds, a \in angles, c \in counters }

\* Spec: the steering inputs vary
SteerCC == Requests(BOOLEAN, {FALSE}, {FALSE}, {0, 40000}, {0})

SteerCS == Observations({0, 3}, {-40, 0, 40}, {0, 20}, {-40000, 35500}, {6})

\* SpecSched: the flags and the longitudinal inputs vary
SchedCC == Requests(BOOLEAN, BOOLEAN, BOOLEAN, {0}, {-500, 100, 500})

SchedCS == Observations({0, 3}, {0}, {20}, {0, 40000}, {6, 7})

\* SpecSpeed: the raw speed varies, below and above both floors
SpeedCC == Requests(BOOLEAN, {FALSE}, {FALSE}, {0, 40000}, {0})

SpeedCS == Observations({0}, {40}, {-5, 0, 1, 30}, {0}, {6})

\* SpecTorque: the driver torque varies, around the deadband and the clip
TorqueCC == Requests({TRUE}, {FALSE}, {FALSE}, {0}, {0})

TorqueCS == Observations({0}, {-40, -20, -6, -5, -4, 0, 4, 5, 6, 20, 40},
                         {20}, {0}, {6})

Next == Call(SteerCC, SteerCS, MaxFrame) \/ update

Spec == Init /\ [][Next]_vars

NextSched == Call(SchedCC, SchedCS, MaxFrameSched) \/ update

SpecSched == Init /\ [][NextSched]_vars

NextSpeed == Call(SpeedCC, SpeedCS, MaxFrameSpeed) \/ update

SpecSpeed == Init /\ [][NextSpeed]_vars

NextTorque == Call(TorqueCC, TorqueCS, MaxFrameTorque) \/ update

SpecTorque == Init /\ [][NextTorque]_vars

----------------------------------------------------------------------------
(* Reading the state of a call *)

\* the step in which update runs: from the call to the return
UpdateStep == pc = "called" /\ pc' = "idle"

\* the frame index of the last completed update (frame > 0)
LastFrame == frame - 1

IsSteering(c) == c.kind = "steering"

IsAllowed(c) == c.kind = "allowed"

IsLongitudinal(c) == c.kind = "longitudinal"

SteeringCommands(sends) == SelectSeq(sends, IsSteering)

AllowedCommands(sends) == SelectSeq(sends, IsAllowed)

LongCommands(sends) == SelectSeq(sends, IsLongitudinal)

AngleInRange(a) == -STEER_ANGLE_MAX <= a /\ a <= STEER_ANGLE_MAX

\* the last update sent a steering command with this enabled flag
SentSteering(enabled) ==
  \E i \in 1..Len(can_sends) :
    IsSteering(can_sends[i]) /\ can_sends[i].enabled = enabled

----------------------------------------------------------------------------
(* C1 .. C3: the Steering Angle Limiter *)

\* C1: in every reachable state apply_angle_last lies in
\* [-STEER_ANGLE_MAX, STEER_ANGLE_MAX], and so do the angle of the steering
\* command and the steeringAngleDeg echoed in new_actuators.
C1_AppliedAngleInRange ==
  /\ AngleInRange(apply_angle_last)
  /\ AngleInRange(new_actuators)
  /\ \A i \in 1..Len(can_sends) :
       IsSteering(can_sends[i]) => AngleInRange(can_sends[i].angle)

\* an active update whose rate-limited angle was cut at STEER_ANGLE_MAX
C1_Witness ==
  /\ apply_angle_last = STEER_ANGLE_MAX
  /\ new_actuators = STEER_ANGLE_MAX
  /\ SentSteering(TRUE)

\* C2 as claimed: on every tick, whatever the inputs, apply_angle_last moves
\* by at most min(get_max_angle_delta, MAX_ANGLE_RATE) of that tick's speed.
C2_EveryTickRateBounded ==
  [][UpdateStep =>
       Abs(apply_angle_last' - apply_angle_last)
         <= Min(get_max_angle_delta(CS.vEgoRaw), MAX_ANGLE_RATE)]_vars

\* C2 amended: on every tick that is not a steering-rate update, and on
\* every steering-rate update with lat_active true whose previous angle lies
\* within the lateral acceleration bound get_max_angle of that tick's speed,
\* apply_angle_last moves by at most min(get_max_angle_delta, MAX_ANGLE_RATE).
C2_ActiveRateBounded ==
  [][UpdateStep
       /\ (frame % 2 # 0
           \/ (/\ CC.latActive /\ CS.hands_on_level < 3
               /\ Abs(apply_angle_last) <= get_max_angle(CS.vEgoRaw)))
     => Abs(apply_angle_last' - apply_angle_last)
          <= Min(get_max_angle_delta(CS.vEgoRaw), MAX_ANGLE_RATE)]_vars

\* the first update, active and at standstill, moved the angle by exactly
\* MAX_ANGLE_RATE toward a far candidate
C2_Witness ==
  /\ frame = 1
  /\ apply_angle_last = MAX_ANGLE_RATE
  /\ SentSteering(TRUE)

\* C3 as claimed: with lat_active false the limiter returns the measured
\* steering angle exactly, whatever its magnitude.
C3_InactiveIsMeasured ==
  [][UpdateStep /\ frame % 2 = 0 /\ ~(CC.latActive /\ CS.hands_on_level < 3)
     => apply_angle_last' = CS.steeringAngleDeg]_vars

\* C3 amended: with lat_active false the limiter returns the measured
\* steering angle clipped to [-STEER_ANGLE_MAX, STEER_ANGLE_MAX], whatever
\* the candidate angle, the previous angle and the speed.
C3_InactiveIsMeasuredClipped ==
  [][UpdateStep /\ frame % 2 = 0 /\ ~(CC.latActive /\ CS.hands_on_level < 3)
     => apply_angle_last' =
          Max(-STEER_ANGLE_MAX, Min(CS.steeringAngleDeg, STEER_ANGLE_MAX))]_vars

\* an inactive update whose measured angle lay below -STEER_ANGLE_MAX
C3_Witness ==
  /\ apply_angle_last = -STEER_ANGLE_MAX
  /\ SentSteering(FALSE)

----------------------------------------------------------------------------
(* C4 .. C8: the schedule and the longitudinal command *)

\* C4: an update sends a steering command iff its frame index is even, and
\* a steering-allowed heartbeat iff its frame index is a multiple of 10.
C4_SteeringAndHeartbeatSchedule ==
  frame > 0 =>
    /\ (Len(SteeringCommands(can_sends)) > 0 <=> LastFrame % 2 = 0)
    /\ (Len(AllowedCommands(can_sends)) > 0 <=> LastFrame % 10 = 0)

\* the update of frame 20 sent both
C4_Witness ==
  /\ LastFrame = 20
  /\ Len(SteeringCommands(can_sends)) = 1
  /\ Len(AllowedCommands(can_sends)) = 1

\* C5 as claimed: in both modes a longitudinal command is only sent by an
\* update whose frame index is a multiple of 4.
C5_LongitudinalOnFourthFrames ==
  frame > 0 /\ Len(LongCommands(can_sends)) > 0 => LastFrame % 4 = 0

\* C5 amended: in owned mode a longitudinal command is only sent by an
\* update whose frame index is a multiple of 4.
C5_OwnedLongitudinalOnFourthFrames ==
  CP /\ frame > 0 /\ Len(LongCommands(can_sends)) > 0 => LastFrame % 4 = 0

\* the owned update of frame 4 sent a longitudinal command
C5_Witness ==
  /\ CP
  /\ LastFrame = 4
  /\ Len(LongCommands(can_sends)) = 1

\* C6: in owned mode every update whose frame index is a multiple of 4
\* sends exactly one longitudinal command, whatever longActive is, with
\* state 13 (cancel) if the cancel flag is set and 4 (on) otherwise, accel
\* the requested accel clipped to [ACCEL_MIN, ACCEL_MAX], counter
\* (frame div 4) mod 8, and longActive carried as a field.
C6_OwnedLongitudinalCommand ==
  [][UpdateStep /\ CP /\ frame % 4 = 0 =>
       LET sent == LongCommands(can_sends')
       IN  /\ Len(sent) = 1
           /\ sent[1].state = (IF CC.cancel THEN 13 ELSE 4)
           /\ sent[1].accel = Max(ACCEL_MIN, Min(CC.accel, ACCEL_MAX))
           /\ sent[1].cntr = (frame \div 4) % 8
           /\ sent[1].active = CC.longActive]_vars

\* the owned update of frame 4 sent a cancel with longActive false and the
\* accel cut at ACCEL_MAX
C6_Witness ==
  /\ CP
  /\ LastFrame = 4
  /\ LongCommands(can_sends) =
       <<create_longitudinal_command(13, ACCEL_MAX, 1, 20, FALSE)>>

\* C7: in unowned mode an update sends a longitudinal command iff the
\* cancel flag is set, and the command has state 13 (cancel), accel 0,
\* longActive false and counter (DAS_controlCounter + 1) mod 8; the
\* requested accel and longActive do not enter it.
C7_UnownedCancelCommand ==
  [][UpdateStep /\ ~CP =>
       LET sent == LongCommands(can_sends')
       IN  /\ Len(sent) = (IF CC.cancel THEN 1 ELSE 0)
           /\ \A i \in 1..Len(sent) :
                /\ sent[i].state = 13
                /\ sent[i].accel = 0
                /\ sent[i].active = FALSE
                /\ sent[i].cntr = (CS.DAS_controlCounter + 1) % 8]_vars

\* the unowned update of frame 1 sent the cancel after an observed counter 6
C7_Witness ==
  /\ ~CP
  /\ LastFrame = 1
  /\ LongCommands(can_sends) =
       <<create_longitudinal_command(13, 0, 7, 20, FALSE)>>

\* C8: the counter of every longitudinal command sent, in owned and in
\* unowned mode, is an integer in 0 .. 7.
C8_CounterInRange ==
  \A i \in 1..Len(can_sends) :
    IsLongitudinal(can_sends[i]) => can_sends[i].cntr \in 0..7

\* the unowned cancel after an observed counter 7 wrapped to 0, and so did
\* the owned command of frame 32
C8_WitnessUnowned ==
  /\ ~CP
  /\ \E i \in 1..Len(can_sends) :
       IsLongitudinal(can_sends[i]) /\ can_sends[i].cntr = 0

C8_Witness ==
  /\ CP
  /\ LastFrame = 32
  /\ \E i \in 1..Len(can_sends) :
       IsLongitudinal(can_sends[i]) /\ can_sends[i].cntr = 0

----------------------------------------------------------------------------
(* C9, C10: angle_modifier *)

\* C9 as claimed: on every update, the reset included, angle_modifier
\* changes by at most 5 degrees.
C9_ModifierStepAlwaysBounded ==
  [][UpdateStep => Abs(angle_modifier' - angle_modifier) <= 500]_vars

\* C9 amended: on every update whose request has latActive true,
\* angle_modifier changes by at most 5 degrees (the reset of an update whose
\* request has latActive false sets it to 0 from whatever it was).
C9_ModifierStepBoundedWhileRequested ==
  [][UpdateStep /\ CC.latActive =>
       Abs(angle_modifier' - angle_modifier) <= 500]_vars

\* two updates in a row moved angle_modifier by the full 5 degrees
C9_Witness ==
  /\ LastFrame = 2
  /\ angle_modifier = 1000

\* C10 as claimed: after every steering-rate update whose steering command
\* has its active flag false, angle_modifier is 0.
C10_ZeroWhenCommandInactive ==
  SentSteering(FALSE) => angle_modifier = 0

\* C10 amended: after every steering-rate update whose request has latActive
\* false, angle_modifier is 0 (with latActive true and hands_on_level >= 3
\* the command is inactive and angle_modifier keeps following the torque).
C10_ZeroWhenRequestInactive ==
  [][UpdateStep /\ frame % 2 = 0 /\ ~CC.latActive => angle_modifier' = 0]_vars

\* update is called on frame 4 with latActive false while angle_modifier
\* holds 10 degrees: the call that resets it
C10_Witness ==
  /\ pc = "called"
  /\ frame = 4
  /\ ~CC.latActive
  /\ angle_modifier = 1000

----------------------------------------------------------------------------
(* C12 .. C18 *)

\* the kinds of a command list, in order
Kinds(sends) == [i \in 1..Len(sends) |-> sends[i].kind]

\* C12: the command list of an update holds at most one steering command,
\* at most one heartbeat and at most one longitudinal command, steering
\* before heartbeat before longitudinal, in both longitudinal modes.
C12_CommandListOrder ==
  Kinds(can_sends) \in
    { <<>>, <<"steering">>, <<"allowed">>, <<"longitudinal">>,
      <<"steering", "allowed">>, <<"steering", "longitudinal">>,
      <<"allowed", "longitudinal">>,
      <<"steering", "allowed", "longitudinal">> }

\* the owned update of frame 20 sent all three, with a cancel requested
C12_Witness ==
  /\ CP
  /\ LastFrame = 20
  /\ Kinds(can_sends) = <<"steering", "allowed", "longitudinal">>
  /\ can_sends[3].state = 13

\* C13 as claimed: every call of the vehicle model passes a speed at or
\* above the floor: 1 in the limiter's calls (the last two of an update),
\* 20 in the torque override's call (the one before them).
C13_ModelSpeedFloored ==
  \A i \in 1..Len(vm_calls) :
    vm_calls[i].speed >= (IF i > Len(vm_calls) - 2 THEN 1 ELSE 20)

\* C13 amended: the torque override passes the vehicle model the speed
\* floored at 20; the limiter floors the speed at 1 in the curvature it
\* divides by, and passes the vehicle model the raw speed.
C13_ModelSpeeds ==
  [][UpdateStep /\ frame % 2 = 0 =>
       LET v == CS.vEgoRaw
           floored == IF v >= 1 THEN v ELSE 1
           n == Len(vm_calls')
       IN  /\ n = (IF CC.latActive THEN 3 ELSE 2)
           /\ \A i \in 1..(n - 2) :
                /\ vm_calls'[i].speed >= 20
                /\ vm_calls'[i].speed >= v
                /\ vm_calls'[i].speed \in {20, v}
           /\ vm_calls'[n - 1] = [curvature |-> 3589000 \div (floored * floored),
                                  speed |-> v]
           /\ vm_calls'[n] = [curvature |-> 3589000 \div (floored * floored),
                              speed |-> v]]_vars

\* an update at a negative raw speed made all three calls: the torque
\* override's at speed 20, the limiter's at the raw speed
C13_Witness ==
  /\ Len(vm_calls) = 3
  /\ vm_calls[1].speed = 20
  /\ vm_calls[2] = [curvature |-> 3589000, speed |-> -5]
  /\ vm_calls[3] = [curvature |-> 3589000, speed |-> -5]

\* the bound of C14: min(jerk-derived delta, MAX_ANGLE_RATE)
StepBound(v) == Min(get_max_angle_delta(v), MAX_ANGLE_RATE)

\* the case of C14: a steering-rate update with lat_active true whose
\* previous angle lies within get_max_angle and within STEER_ANGLE_MAX
C14_Case ==
  /\ UpdateStep
  /\ frame % 2 = 0
  /\ CC.latActive /\ CS.hands_on_level < 3
  /\ Abs(apply_angle_last) <= get_max_angle(CS.vEgoRaw)
  /\ Abs(apply_angle_last) <= STEER_ANGLE_MAX

\* C14 as claimed: in that case the output is within the bound of the
\* previous angle, and is previous +/- the bound when the candidate is
\* further away than the bound.
C14_LimitedStep ==
  [][C14_Case =>
       LET bound == StepBound(CS.vEgoRaw)
           candidate == CC.steeringAngleDeg + angle_modifier'
       IN  /\ Abs(apply_angle_last' - apply_angle_last) <= bound
           /\ candidate > apply_angle_last + bound
                => apply_angle_last' = apply_angle_last + bound
           /\ candidate < apply_angle_last - bound
                => apply_angle_last' = apply_angle_last - bound]_vars

\* C14 amended: in that case the output is within the bound of the previous
\* angle, and is previous +/- the bound when the candidate is further away
\* than the bound and previous +/- the bound lies within get_max_angle and
\* STEER_ANGLE_MAX; otherwise it is cut at the nearer of those two limits.
C14_LimitedStepWithinLimits ==
  [][C14_Case =>
       LET bound == StepBound(CS.vEgoRaw)
           candidate == CC.steeringAngleDeg + angle_modifier'
           limit == Min(get_max_angle(CS.vEgoRaw), STEER_ANGLE_MAX)
       IN  /\ Abs(apply_angle_last' - apply_angle_last) <= bound
           /\ candidate > apply_angle_last + bound
                => apply_angle_last' = Min(apply_angle_last + bound, limit)
           /\ candidate < apply_angle_last - bound
                => apply_angle_last' = Max(apply_angle_last - bound, -limit)]_vars

\* the first update, active at speed 20 with a far candidate, moved the
\* angle from 0 by the jerk-derived step, 0.49 deg
C14_Witness ==
  /\ LastFrame = 0
  /\ apply_angle_last = 49
  /\ SentSteering(TRUE)
  /\ vm_calls[Len(vm_calls)].speed = 20

\* C15: in owned mode the counter of every longitudinal command sent is the
\* counter of the longitudinal command sent before it plus 1, modulo 8.
C15_OwnedCounterAdvances ==
  [][UpdateStep /\ CP /\ last_long_cntr # -1
       /\ Len(LongCommands(can_sends')) > 0
     => /\ Len(LongCommands(can_sends')) = 1
        /\ LongCommands(can_sends')[1].cntr = (last_long_cntr + 1) % 8]_vars

\* the owned update of frame 32 sent counter 0, following the 7 of frame 28
C15_Witness ==
  /\ CP
  /\ LastFrame = 32
  /\ last_long_cntr = 0
  /\ Len(LongCommands(can_sends)) = 1
  /\ LongCommands(can_sends)[1].cntr = 0

\* C16: an update on an odd frame leaves apply_angle_last and
\* angle_modifier unchanged and echoes the angle applied by the last
\* steering-rate update; every update adds 1 to frame and feeds the torque
\* filter.
C16_OddFrameEffect ==
  [][UpdateStep =>
       /\ frame' = frame + 1
       /\ driver_torque' =
            FilterUpdate(driver_torque, DriverTorqueInput(CS.steeringTorque))
       /\ frame % 2 # 0 =>
            /\ apply_angle_last' = apply_angle_last
            /\ angle_modifier' = angle_modifier
            /\ new_actuators' = apply_angle_last
            /\ new_actuators' = new_actuators]_vars

\* the update of frame 1 sent no steering command, echoed the 10 deg applied
\* on frame 0, kept the 5 deg of angle_modifier and moved the filter on
C16_Witness ==
  /\ LastFrame = 1
  /\ Len(SteeringCommands(can_sends)) = 0
  /\ vm_calls = <<>>
  /\ apply_angle_last = 1000
  /\ new_actuators = 1000
  /\ angle_modifier = 500
  /\ driver_torque = 28

\* C17: the steering command's active flag is true iff the request has
\* latActive true and hands_on_level < 3; when it is false the applied
\* angle is the measured angle clipped to +/-STEER_ANGLE_MAX, whatever the
\* desired angle and angle_modifier are.
C17_ActiveFlagAndInactiveAngle ==
  [][UpdateStep /\ frame % 2 = 0 =>
       LET sent == SteeringCommands(can_sends')
           measured == Max(-STEER_ANGLE_MAX, Min(CS.steeringAngleDeg, STEER_ANGLE_MAX))
       IN  /\ Len(sent) = 1
           /\ sent[1].enabled <=> (CC.latActive /\ CS.hands_on_level < 3)
           /\ sent[1].angle = apply_angle_last'
           /\ ~sent[1].enabled => sent[1].angle = measured]_vars

\* the command went out inactive for hands_on_level 3 alone (the request
\* had latActive, angle_modifier moved) with the measured 355 deg
C17_Witness ==
  /\ SentSteering(FALSE)
  /\ angle_modifier = 500
  /\ apply_angle_last = 35500

\* C18: the value fed to the torque filter is 0 when |torque| < 0.5, else
\* torque minus 0.5 with the sign of torque, then clipped to [-3, 3]; it is
\* in [-3, 3], has the sign of the torque or is 0, and is 0 at
\* |torque| = 0.5; and it is what the filter is updated with.
C18_TorqueFed ==
  [][UpdateStep =>
       LET t == CS.steeringTorque
           fed == DriverTorqueInput(t)
       IN  /\ fed = IF -5 < t /\ t < 5 THEN 0
                    ELSE IF t > 0 THEN Min(t - 5, 30) ELSE Max(t + 5, -30)
           /\ -30 <= fed /\ fed <= 30
           /\ fed = 0 \/ (fed > 0 /\ t > 0) \/ (fed < 0 /\ t < 0)
           /\ (t = 5 \/ t = -5) => fed = 0
           /\ 13 * driver_torque' <= 3 * driver_torque + 10 * fed + 12
           /\ 13 * driver_torque' >= 3 * driver_torque + 10 * fed - 12]_vars

\* the first update was fed 1.5 for a torque of 2.0: the filter holds 1.1
C18_Witness ==
  /\ LastFrame = 0
  /\ driver_torque = 11

====
